---- MODULE Spec2Model ----
(***************************************************************************)
(* A model of package errors (src/errors/errors.go): error frames, the     *)
(* error list, the NotFound error and the rendering of a frame chain.      *)
(*                                                                         *)
(* Texts are sequences of one-character strings, so that rendering is      *)
(* computed character by character as the code appends bytes.  The one     *)
(* non-printable byte of the model, 0x01, is the token Ctl.                *)
(*                                                                         *)
(* A call of the library ends in one of three ways: it returns ("ok"), it  *)
(* panics ("panic": a method call on a nil interface, a failed type        *)
(* assertion) or it recurses without end until the goroutine stack is      *)
(* exhausted ("overflow").  An outcome is a record [st, s].                *)
(***************************************************************************)
EXTENDS Integers, Sequences, FiniteSets, TLC

VARIABLES heap, obs, val, tok

vars == <<heap, obs, val, tok>>

\* ------------------------------------------------------------------ bounds

\* The number of objects (errors, frames, list variables) a run allocates.
MaxObjs == 3
\* The number of elements a run adds to one List.
MaxLen == 2
\* The longest Code that Detail stores in a run.
MaxCodeLen == 9
\* The longest text argument handed to appendValue.
MaxStrLen == 34

\* ------------------------------------------------------- program constants

\* appendValue: a text longer than this is cut (len(val) > 32).
CutOver == 32
\* appendValue: the number of bytes kept at each end (val[:16], val[len-16:]).
CutKeep == 16

\* ------------------------------------------------------------------- texts

Ctl == "^A"

Banner == <<"\n", "\n", "=", "=", "=", ">", " ", "e", "r", "r", "o", "r", "s",
            " ", "s", "t", "a", "c", "k", ":", "\n">>

HexDigits == <<"0", "1", "2", "3", "4", "5", "6", "7", "8", "9",
               "a", "b", "c", "d", "e", "f">>

Ok(s) == [st |-> "ok", s |-> s]

Panic == [st |-> "panic", s |-> <<>>]

Overflow == [st |-> "overflow", s |-> <<>>]

\* append(b, s...) onto the outcome of what was evaluated before: a panic or
\* an overflow of an earlier step ends the call, and later steps never run.
Then(o, s) == IF o.st = "ok" THEN Ok(o.s \o s) ELSE o

RECURSIVE Digits(_, _)
Digits(n, base) ==
    IF n < base THEN <<HexDigits[n + 1]>>
    ELSE Append(Digits(n \div base, base), HexDigits[(n % base) + 1])

\* strconv.AppendInt(b, n, base) for b empty.
AppendInt(n, base) == IF n < 0 THEN <<"-">> \o Digits(-n, base) ELSE Digits(n, base)

\* One byte of strconv.AppendQuote's output.
QuoteByte(c) ==
    CASE c = "\"" -> <<"\\", "\"">>
      [] c = "\\" -> <<"\\", "\\">>
      [] c = "\n" -> <<"\\", "n">>
      [] c = "\t" -> <<"\\", "t">>
      [] c = Ctl  -> <<"\\", "x", "0", "1">>
      [] OTHER    -> <<c>>

RECURSIVE QuoteBody(_)
QuoteBody(s) ==
    IF Len(s) = 0 THEN <<>>
    ELSE IF Len(s) = 1 THEN QuoteByte(s[1])
    ELSE LET m == Len(s) \div 2
         IN QuoteBody(SubSeq(s, 1, m)) \o QuoteBody(SubSeq(s, m + 1, Len(s)))

\* strconv.AppendQuote(b, s) for b empty.
AppendQuote(s) == <<"\"">> \o QuoteBody(s) \o <<"\"">>

\* ------------------------------------------------------- the value renderer

\* An argument value: its reflect kind k, and its number n or its text s.
\*   "nil"    the nil interface
\*   "bool"   n = 1 for true, 0 for false
\*   "int"    a number (the kinds Int .. Complex128 print through fmt.Sprint)
\*   "string" a value of type string
\*   "named"  a value of a defined type whose underlying type is string
\*            (type Key string): its kind is reflect.String, its type is not string
\*   "array", "struct"
\*   "ptr"    a pointer, map, chan, func or slice, at address n
Arg(k, n, s) == [k |-> k, n |-> n, s |-> s]

\* val[:16] + "..." + val[len(val)-16:]
cutText(s) ==
    IF Len(s) > CutOver
    THEN SubSeq(s, 1, CutKeep) \o <<".", ".", ".">> \o SubSeq(s, Len(s) - CutKeep + 1, Len(s))
    ELSE s

appendValue(b, arg) ==
    CASE arg.k = "nil"    -> Then(b, <<"n", "i", "l">>)
      [] arg.k = "bool"   -> Then(b, IF arg.n = 1 THEN <<"t", "r", "u", "e">>
                                     ELSE <<"f", "a", "l", "s", "e">>)
      [] arg.k = "int"    -> Then(b, AppendInt(arg.n, 10))
      [] arg.k = "string" -> Then(b, AppendQuote(cutText(arg.s)))
      [] arg.k = "named"  -> IF b.st = "ok" THEN Panic ELSE b
      [] arg.k = "array"  -> Then(b, <<"A", "r", "r", "a", "y">>)
      [] arg.k = "struct" -> Then(b, <<"S", "t", "r", "u", "c", "t">>)
      [] OTHER            -> Then(b, <<"0", "x">> \o AppendInt(arg.n, 16))

RECURSIVE argsFrom(_, _, _)
argsFrom(b, args, i) ==
    IF i > Len(args) \/ b.st # "ok" THEN b
    ELSE LET b1 == appendValue(b, args[i])
             b2 == IF i # Len(args) THEN Then(b1, <<",", " ">>) ELSE b1
         IN argsFrom(b2, args, i + 1)

argsDetail(b, args) == argsFrom(b, args, 1)

\* ------------------------------------------ the inputs of the value renderer

Fill(c, n) == [i \in 1..n |-> c]

Cycle(n) == [i \in 1..n |-> HexDigits[((i - 1) % 16) + 1]]

Texts ==
    {Fill(c, n) : c \in {"a", "\"", Ctl}, n \in 0..MaxStrLen}
        \cup {Cycle(n) : n \in 0..MaxStrLen}

ArgValues ==
    {Arg("nil", 0, <<>>), Arg("array", 0, <<>>), Arg("struct", 0, <<>>)}
        \cup {Arg("bool", n, <<>>) : n \in {0, 1}}
        \cup {Arg("int", n, <<>>) : n \in {-7, 0, 42}}
        \cup {Arg("ptr", n, <<>>) : n \in {0, 255, 4096}}
        \cup {Arg(k, 0, s) : k \in {"string", "named"}, s \in Texts}

NoTok == [st |-> "none", s |-> <<>>]

\* ---------------------------------------------------- error values and heap

\* An error value (the content of an error interface):
\*   "nil"   the nil interface
\*   "ptr"   a pointer to the object at address a (an *errorString of
\*           errors.New, a *NotFound, a *Frame, a wrapper of another package,
\*           or a *List: the address of a List variable)
\*   "list"  a List held by value: the first n elements of the List variable
\*           at a.  Add only appends, so the elements a slice value of length
\*           n shows stay the first n elements of the variable it was copied
\*           from, whatever is added after the copy.
Nil == [t |-> "nil", a |-> 0, n |-> 0]

Ptr(a) == [t |-> "ptr", a |-> a, n |-> 0]

ListVal(a, n) == [t |-> "list", a |-> a, n |-> n]

\* An object of the heap.  kind is "base" (errors.New: msg), "notfound"
\* (NotFound: msg is Category), "wrap" (an error of another package with an
\* Unwrap method: msg, Err), "frame" (Frame) or "list" (a List variable).
Obj(kind, msg, err, fn, args, code, file, line, elems) ==
    [kind |-> kind, msg |-> msg, Err |-> err, Func |-> fn, Args |-> args,
     Code |-> code, File |-> file, Line |-> line, elems |-> elems]

KindOf(h, r) == IF r.t = "ptr" THEN h[r.a].kind ELSE r.t

IsFrame(h, r) == KindOf(h, r) = "frame"

IsList(h, r) == KindOf(h, r) = "list"

\* The elements of a List value, or of the List a *List points to.
Elems(h, r) == IF r.t = "list" THEN SubSeq(h[r.a].elems, 1, r.n) ELSE h[r.a].elems

RECURSIVE ElemCount(_, _)
ElemCount(h, i) == IF i > Len(h) THEN 0 ELSE Len(h[i].elems) + ElemCount(h, i + 1)

\* A call chain deeper than the number of values that exist visits one value
\* twice, and then recurses without end: the goroutine stack overflows.  The
\* values that exist are a pointer to each object, the List values stored in
\* an Err field or in a List, and the List value a caller passes in.
Fuel(h) == 2 * Len(h) + ElemCount(h, 1) + 2

\* The result of a call: status st, and the text s, the error r or the
\* boolean v it returns.
Res(st, s, r, v) == [st |-> st, s |-> s, r |-> r, v |-> v]

RetText(o) == Res(o.st, o.s, Nil, FALSE)

RetErr(r) == Res("ok", <<>>, r, FALSE)

RetBool(v) == Res("ok", <<>>, Nil, v)

\* b = append(b, x.Error()...), where o is the outcome of x.Error().
ThenOut(b, o) == IF b.st # "ok" THEN b ELSE IF o.st # "ok" THEN o ELSE Ok(b.s \o o.s)

RECURSIVE Error(_, _, _)
RECURSIVE Summary(_, _, _)
RECURSIVE errorDetail(_, _, _, _)
RECURSIVE joinFrom(_, _, _, _, _, _)
RECURSIVE Err(_, _, _)
RECURSIVE IsNotFound(_, _, _)

\* (p *NotFound) Error
NotFoundError(p) == Ok(p.msg \o <<" ", "n", "o", "t", " ", "f", "o", "u", "n", "d">>)

\* The stack entry errorDetail appends for frame p.
stackEntry(b, p) ==
    LET b1 == Then(Then(b, p.Func), <<"(">>)
        b2 == argsDetail(b1, p.Args)
        b3 == Then(Then(Then(b2, <<")", "\n", "\t">>), p.File), <<":">>)
        b4 == Then(Then(b3, AppendInt(p.Line, 10)), <<" ">>)
    IN Then(Then(b4, p.Code), <<"\n">>)

\* errorDetail with the banner appended after a nested frame's text as well.
errorDetailMut(h, b, a, d) ==
    IF d = 0 THEN Overflow
    ELSE LET p == h[a]
             b1 == IF IsFrame(h, p.Err)
                   THEN Then(errorDetail(h, b, p.Err.a, d - 1), Banner)
                   ELSE Then(ThenOut(b, Error(h, p.Err, d - 1)), Banner)
         IN IF b1.st = "ok" THEN stackEntry(b1, p) ELSE b1

errorDetail(h, b, a, d) ==
    IF d = 0 THEN Overflow
    ELSE LET p == h[a]
             b1 == IF IsFrame(h, p.Err) THEN errorDetail(h, b, p.Err.a, d - 1)
                   ELSE Then(ThenOut(b, Error(h, p.Err, d - 1)), Banner)
         IN IF b1.st = "ok" THEN stackEntry(b1, p) ELSE b1

\* (p *Frame) Error
FrameError(h, a, d) == errorDetail(h, Ok(<<>>), a, d)

\* strings.Join(s, "\n") over s[i] = v.Error() (sum = FALSE) or Summary(v)
\* (sum = TRUE), the elements rendered in order.
joinFrom(h, es, i, acc, sum, d) ==
    IF i > Len(es) \/ acc.st # "ok" THEN acc
    ELSE LET o == IF sum THEN Summary(h, es[i], d) ELSE Error(h, es[i], d)
             sep == IF i > 1 THEN Then(acc, <<"\n">>) ELSE acc
         IN IF o.st = "ok" THEN joinFrom(h, es, i + 1, ThenOut(sep, o), sum, d) ELSE o

\* (p List) Error
ListError(h, es, d) ==
    IF d = 0 THEN Overflow
    ELSE IF Len(es) >= 2 THEN joinFrom(h, es, 1, Ok(<<>>), FALSE, d - 1)
    ELSE IF Len(es) = 1 THEN Error(h, es[1], d - 1)
    ELSE Ok(<<>>)

\* (p List) Summary
ListSummary(h, es, d) ==
    IF d = 0 THEN Overflow
    ELSE IF Len(es) >= 2 THEN joinFrom(h, es, 1, Ok(<<>>), TRUE, d - 1)
    ELSE IF Len(es) = 1 THEN Summary(h, es[1], d - 1)
    ELSE Ok(<<>>)

\* err.Error(): the method of err's dynamic type; a nil interface panics.
Error(h, r, d) ==
    CASE r.t = "nil" -> Panic
      [] IsList(h, r) -> ListError(h, Elems(h, r), d)
      [] IsFrame(h, r) -> FrameError(h, r.a, d)
      [] KindOf(h, r) = "notfound" -> NotFoundError(h[r.a])
      [] OTHER -> Ok(h[r.a].msg)

\* Summary returning the detail text of the cause.
FrameSummaryMut(h, a, d) == IF d = 0 THEN Overflow ELSE Error(h, h[a].Err, d - 1)

\* (p *Frame) Summary
FrameSummary(h, a, d) == IF d = 0 THEN Overflow ELSE Summary(h, h[a].Err, d - 1)

\* Summary(err)
Summary(h, r, d) ==
    CASE IsFrame(h, r) -> FrameSummary(h, r.a, d)
      [] IsList(h, r) -> ListSummary(h, Elems(h, r), d)
      [] OTHER -> Error(h, r, d)

\* (p *Frame) Unwrap, and the Unwrap of a wrapper of another package.
Unwrap(h, r) == h[r.a].Err

\* The assertion narrowed to *Frame.
hasUnwrapMut(h, r) == KindOf(h, r) = "frame"

\* err.(interface{ Unwrap() error })
hasUnwrap(h, r) == KindOf(h, r) \in {"frame", "wrap"}

\* Err unwrapping whatever has an Unwrap method.
ErrMut(h, r, d) ==
    IF hasUnwrap(h, r)
    THEN IF d = 0 THEN Res("overflow", <<>>, Nil, FALSE) ELSE Err(h, h[r.a].Err, d - 1)
    ELSE RetErr(r)

\* Err(err)
Err(h, r, d) ==
    IF IsFrame(h, r)
    THEN IF d = 0 THEN Res("overflow", <<>>, Nil, FALSE) ELSE Err(h, h[r.a].Err, d - 1)
    ELSE RetErr(r)

\* IsNotFound(err)
IsNotFound(h, r, d) ==
    IF hasUnwrap(h, r)
    THEN IF d = 0 THEN Res("overflow", <<>>, Nil, FALSE) ELSE IsNotFound(h, Unwrap(h, r), d - 1)
    ELSE RetBool(KindOf(h, r) = "notfound")

\* ------------------------------------------------------------ constructors

\* New(msg): errors.New(msg)
New(msg) == Obj("base", msg, Nil, <<>>, <<>>, <<>>, <<>>, 0, <<>>)

\* &NotFound{Category: category}
NotFound(category) == Obj("notfound", category, Nil, <<>>, <<>>, <<>>, <<>>, 0, <<>>)

\* An error of another package that has an Unwrap method, such as the result
\* of fmt.Errorf("ctx: %w", err): its message is fixed when it is made.
Wrapper(msg, err) == Obj("wrap", msg, err, <<>>, <<>>, <<>>, <<>>, 0, <<>>)

\* var l List
EmptyList == Obj("list", <<>>, Nil, <<>>, <<>>, <<>>, <<>>, 0, <<>>)

\* NewFrame(err, code, file, line, fn, args...)
NewFrame(err, code, file, line, fn, args) ==
    Obj("frame", <<>>, err, fn, args, code, file, line, <<>>)

\* NewWith(err, code, n, fn, args...), where fileLine() returned (file, line).
NewWith(err, code, n, fn, args, file, line) ==
    Obj("frame", <<>>, err, fn, args, code, file, line + n, <<>>)

\* Info(err, cmd...)
Info(err, cmd) == Obj("frame", <<>>, err, <<>>, cmd, <<>>, <<>>, 0, <<>>)

\* InfoEx(calldepth, err, cmd...)
InfoEx(calldepth, err, cmd) == Obj("frame", <<>>, err, <<>>, cmd, <<>>, <<>>, 0, <<>>)

\* Detail storing the text as Func too.
DetailMut(p, text) == [p EXCEPT !.Code = text, !.Func = text]

\* (p *ErrorInfo) Detail(err): p.Code = err.Error(), text being err.Error().
Detail(p, text) == [p EXCEPT !.Code = text]

\* Add putting the error in front.
AddMut(es, err) == <<err>> \o es

\* (p *List) Add(err): *p = append(*p, err)
Add(es, err) == Append(es, err)

\* ToError without its case for one element.
ToErrorMut(h, a) ==
    LET p == h[a].elems
    IN IF Len(p) = 0 THEN Nil ELSE ListVal(a, Len(p))

\* (p List) ToError, for the List variable at a.
ToError(h, a) ==
    LET p == h[a].elems
    IN CASE Len(p) = 1 -> p[1]
         [] Len(p) = 0 -> Nil
         [] OTHER -> ListVal(a, Len(p))

\* (p *Frame) Format and (p List) Format, for the value r and the verb.
Format(h, r, verb, d) ==
    CASE verb = "v" -> Error(h, r, d)
      [] verb = "s" -> Summary(h, r, d)
      [] verb = "q" -> LET o == Error(h, r, d)
                       IN IF o.st = "ok" THEN Ok(AppendQuote(o.s)) ELSE o
      [] OTHER -> Ok(<<>>)

\* ------------------------------------------------------------------ inputs

Messages == {<<"d", "i", "s", "k", " ", "f", "u", "l", "l">>}

Categories == {<<"k", "e", "y">>}

WrapPrefix == <<"c", "t", "x", ":", " ">>

\* The call sites of NewFrame: fn, args, code, file, line.
Sites ==
    {[Func |-> <<"w", "r", "i", "t", "e", "B", "l", "o", "c", "k">>,
      Args |-> <<Arg("int", 42, <<>>), Arg("string", 0, <<"c", "a", "c", "h", "e">>)>>,
      Code |-> <<"E", "N", "O", "S", "P", "C">>,
      File |-> <<"b", "l", "k", ".", "g", "o">>, Line |-> 7],
     [Func |-> <<"g", "e", "t">>,
      Args |-> <<Arg("named", 0, <<"i", "d">>)>>,
      Code |-> <<>>,
      File |-> <<"k", "v", ".", "g", "o">>, Line |-> 120]}

\* The arguments of the call sites that build a frame with Info and InfoEx.
InfoArgs == <<Arg("string", 0, <<"g", "e", "t">>), Arg("struct", 0, <<>>)>>

\* What runtime.Caller(2) reports to NewWith: the file and line of its caller.
Callers == {[File |-> <<"r", "d", ".", "g", "o">>, Line |-> 31]}

\* The line adjustments n given to NewWith.
Offsets == {-2}

WithFunc == <<"o", "p", "e", "n">>

WithArgs == <<Arg("nil", 0, <<>>), Arg("ptr", 4096, <<>>), Arg("bool", 1, <<>>)>>

WithCode == <<"f", " ", ":", "=", " ", "o", "p", "e", "n", "(", ")">>

Verbs == {"v", "s", "q", "d"}

Addrs(h, kind) == {a \in DOMAIN h : h[a].kind = kind}

\* The error values a caller can hand to an operation: nil, a pointer to any
\* object, and any List variable by value (a copy of its current slice).
Values(h) ==
    {Nil} \cup {Ptr(a) : a \in DOMAIN h}
          \cup {ListVal(a, Len(h[a].elems)) : a \in Addrs(h, "list")}

\* The values a caller renders or inspects: the error it has just built, its
\* List variable (by address and by value), and nil.
Targets(h) ==
    {Nil} \cup {Ptr(a) : a \in {Len(h)} \cap DOMAIN h}
          \cup {Ptr(a) : a \in Addrs(h, "list")}
          \cup {ListVal(a, Len(h[a].elems)) : a \in Addrs(h, "list")}

\* The frames a caller calls a method of: the one it has just built.
TargetFrames(h) == {a \in {Len(h)} \cap DOMAIN h : h[a].kind = "frame"}

Observe(op, arg, res) == [op |-> op, arg |-> arg, res |-> res]

\* ----------------------------------------------------------------- actions

Alloc(op, arg, o) ==
    /\ Len(heap) < MaxObjs
    /\ heap' = Append(heap, o)
    /\ obs' = Observe(op, arg, RetErr(Ptr(Len(heap) + 1)))
    /\ UNCHANGED <<val, tok>>

Pure(op, arg, res) ==
    /\ obs' = Observe(op, arg, res)
    /\ UNCHANGED <<heap, val, tok>>

DoNew == \E m \in Messages : Alloc("New", Nil, New(m))

DoNotFound == \E c \in Categories : Alloc("NotFound", Nil, NotFound(c))

DoWrap ==
    \E e \in Values(heap) \ {Nil} :
        LET o == Error(heap, e, Fuel(heap))
        IN /\ o.st = "ok"
           /\ Alloc("Wrap", e, Wrapper(WrapPrefix \o o.s, e))

DoNewFrame ==
    \E e \in Values(heap), s \in Sites :
        Alloc("NewFrame", e, NewFrame(e, s.Code, s.File, s.Line, s.Func, s.Args))

DoNewWith ==
    \E e \in Values(heap), c \in Callers, n \in Offsets :
        Alloc("NewWith", e, NewWith(e, WithCode, n, WithFunc, WithArgs, c.File, c.Line))

DoInfo == \E e \in Values(heap) : Alloc("Info", e, Info(e, InfoArgs))

DoInfoEx == \E e \in Values(heap) : Alloc("InfoEx", e, InfoEx(1, e, InfoArgs))

DoAdd ==
    \E a \in Addrs(heap, "list"), e \in Values(heap) :
        /\ Len(heap[a].elems) < MaxLen
        /\ heap' = [heap EXCEPT ![a].elems = Add(@, e)]
        /\ obs' = Observe("Add", e, RetErr(Ptr(a)))
        /\ UNCHANGED <<val, tok>>

DoDetail ==
    \E a \in TargetFrames(heap), e \in Values(heap) :
        LET o == Error(heap, e, Fuel(heap))
        IN /\ o.st = "ok" => Len(o.s) <= MaxCodeLen
           /\ heap' = IF o.st = "ok" THEN [heap EXCEPT ![a] = Detail(@, o.s)] ELSE heap
           /\ obs' = Observe("Detail", e, Res(o.st, <<>>, Ptr(a), FALSE))
           /\ UNCHANGED <<val, tok>>

DoToError ==
    \E a \in Addrs(heap, "list") :
        Pure("ToError", Ptr(a), RetErr(ToError(heap, a)))

DoError ==
    \E r \in Targets(heap) \ {Nil} :
        Pure("Error", r, RetText(Error(heap, r, Fuel(heap))))

DoSummary ==
    \E r \in Targets(heap) :
        Pure("Summary", r, RetText(Summary(heap, r, Fuel(heap))))

DoErr == \E r \in Targets(heap) : Pure("Err", r, Err(heap, r, Fuel(heap)))

DoIsNotFound ==
    \E r \in Targets(heap) : Pure("IsNotFound", r, IsNotFound(heap, r, Fuel(heap)))

DoUnwrap ==
    \E a \in TargetFrames(heap) : Pure("Unwrap", Ptr(a), RetErr(Unwrap(heap, Ptr(a))))

DoNestedObject ==
    \E a \in TargetFrames(heap) : Pure("NestedObject", Ptr(a), RetErr(heap[a].Err))

DoSummaryErr ==
    \E a \in TargetFrames(heap) : Pure("SummaryErr", Ptr(a), RetErr(heap[a].Err))

DoErrorDetail ==
    \E a \in TargetFrames(heap) :
        Pure("ErrorDetail", Ptr(a), RetText(FrameError(heap, a, Fuel(heap))))

DoAppendErrorDetail ==
    \E a \in TargetFrames(heap) :
        Pure("AppendErrorDetail", Ptr(a),
             RetText(errorDetail(heap, Ok(<<"#">>), a, Fuel(heap))))

DoFormat ==
    \E r \in Targets(heap) \ {Nil}, verb \in Verbs :
        /\ r.t = "ptr"
        /\ IsFrame(heap, r) \/ IsList(heap, r)
        /\ Pure(verb, r, RetText(Format(heap, r, verb, Fuel(heap))))

\* ------------------------------------------------- frames over plain errors

\* A caller that builds errors and wraps them in frames, and holds no List.
Init ==
    /\ heap = <<>>
    /\ obs = Observe("none", Nil, RetErr(Nil))
    /\ val = Arg("nil", 0, <<>>)
    /\ tok = NoTok

Next ==
    \/ DoNew
    \/ DoNotFound
    \/ DoWrap
    \/ DoNewFrame
    \/ DoNewWith
    \/ DoError
    \/ DoSummary
    \/ DoErr
    \/ DoIsNotFound

Spec == Init /\ [][Next]_vars

\* ---------------------------------------------------- a List and its frames

\* A caller that holds one List variable (var l List, at address 1), adds
\* errors and frames to it, and uses the methods kept for compatibility.
InitList ==
    /\ heap = <<EmptyList>>
    /\ obs = Observe("none", Nil, RetErr(Nil))
    /\ val = Arg("nil", 0, <<>>)
    /\ tok = NoTok

NextList ==
    \/ DoNew
    \/ DoInfo
    \/ DoInfoEx
    \/ DoAdd
    \/ DoDetail
    \/ DoToError
    \/ DoError
    \/ DoSummary
    \/ DoErr
    \/ DoIsNotFound
    \/ DoUnwrap
    \/ DoNestedObject
    \/ DoSummaryErr
    \/ DoErrorDetail
    \/ DoAppendErrorDetail
    \/ DoFormat

SpecList == InitList /\ [][NextList]_vars

\* ------------------------------------------- the value renderer on its own

InitValue ==
    /\ heap = <<>>
    /\ obs = Observe("none", Nil, RetErr(Nil))
    /\ val \in ArgValues
    /\ tok = NoTok

DoAppendValue ==
    /\ tok = NoTok
    /\ tok' = appendValue(Ok(<<>>), val)
    /\ UNCHANGED <<heap, obs, val>>

DoNextValue ==
    /\ tok # NoTok
    /\ val' \in ArgValues
    /\ tok' = NoTok
    /\ UNCHANGED <<heap, obs>>

NextValue == DoAppendValue \/ DoNextValue

SpecValue == InitValue /\ [][NextValue]_vars

\* ------------------------------------------------------ what the claims use

\* Every error value of a state: what a caller can pass, and what is stored.
Stored(h) ==
    {h[a].Err : a \in Addrs(h, "frame") \cup Addrs(h, "wrap")}
        \cup UNION {{h[a].elems[i] : i \in DOMAIN h[a].elems} : a \in Addrs(h, "list")}

AllValues(h) == Values(h) \cup Stored(h)

\* The frames of the chain that starts at r, innermost (first created) first.
RECURSIVE ChainFrames(_, _)
ChainFrames(h, r) ==
    IF IsFrame(h, r) THEN Append(ChainFrames(h, h[r.a].Err), r.a) ELSE <<>>

\* The first value under r that is not a Frame.
RECURSIVE ChainLeaf(_, _)
ChainLeaf(h, r) == IF IsFrame(h, r) THEN ChainLeaf(h, h[r.a].Err) ELSE r

\* The value at the end of r's Unwrap chain, through frames and wrappers.
RECURSIVE UnwrapEnd(_, _)
UnwrapEnd(h, r) ==
    IF KindOf(h, r) \in {"frame", "wrap"} THEN UnwrapEnd(h, h[r.a].Err) ELSE r

\* The rendered arguments joined by ", ": no text when one does not render.
RECURSIVE JoinedArgs(_, _)
JoinedArgs(args, i) ==
    IF i > Len(args) THEN Ok(<<>>)
    ELSE LET one == appendValue(Ok(<<>>), args[i])
             rest == JoinedArgs(args, i + 1)
         IN IF one.st # "ok" THEN one
            ELSE IF rest.st # "ok" THEN rest
            ELSE IF i = Len(args) THEN one
            ELSE Ok(one.s \o <<",", " ">> \o rest.s)

\* The stack entry of frame p as the specification words it.
EntryText(p) ==
    LET j == JoinedArgs(p.Args, 1)
    IN IF j.st # "ok" THEN j
       ELSE Ok(p.Func \o <<"(">> \o j.s \o <<")", "\n", "\t">> \o p.File \o <<":">>
               \o AppendInt(p.Line, 10) \o <<" ">> \o p.Code \o <<"\n">>)

RECURSIVE Entries(_, _, _)
Entries(h, fs, i) ==
    IF i > Len(fs) THEN Ok(<<>>)
    ELSE LET e == EntryText(h[fs[i]])
         IN IF e.st # "ok" THEN e ELSE ThenOut(e, Entries(h, fs, i + 1))

\* M, the banner once, then the entries of the chain in wrap order.
DetailText(h, r) ==
    LET m == Error(h, ChainLeaf(h, r), Fuel(h))
    IN ThenOut(Then(m, Banner), Entries(h, ChainFrames(h, r), 1))

\* C1: the Error() of a chain of k >= 1 frames over a leaf error with message
\* M is M, the banner once, and the k stack entries in wrap order, each
\* Func(args joined by ", ")\n\tFile:Line Code\n.
C1_DetailRendering ==
    \A r \in AllValues(heap) :
        (IsFrame(heap, r) /\ ChainLeaf(heap, r) # Nil)
            => Error(heap, r, Fuel(heap)) = DetailText(heap, r)

C1_Witness ==
    /\ obs.op = "Error"
    /\ Len(ChainFrames(heap, obs.arg)) >= 2
    /\ EntryText(heap[ChainFrames(heap, obs.arg)[1]])
           # EntryText(heap[ChainFrames(heap, obs.arg)[2]])
    /\ obs.res.st = "ok"

\* C5 as stated: IsNotFound is true for a NotFound leaf and for that leaf
\* wrapped in frames, and false for every other error chain.
C5_OnlyThroughFrames ==
    \A r \in AllValues(heap) :
        IsNotFound(heap, r, Fuel(heap)).v = (KindOf(heap, ChainLeaf(heap, r)) = "notfound")

\* C5 amended: IsNotFound is true exactly when the value at the end of the
\* Unwrap chain is a NotFound, whatever has an Unwrap method on the way
\* (frames or wrappers of other packages); it is false for nil.
C5_IsNotFound ==
    /\ \A r \in AllValues(heap) :
        /\ IsNotFound(heap, r, Fuel(heap)).st = "ok"
        /\ IsNotFound(heap, r, Fuel(heap)).v = (KindOf(heap, UnwrapEnd(heap, r)) = "notfound")
        /\ KindOf(heap, ChainLeaf(heap, r)) = "notfound" => IsNotFound(heap, r, Fuel(heap)).v
    /\ ~IsNotFound(heap, Nil, Fuel(heap)).v

C5_Witness ==
    /\ obs.op = "IsNotFound"
    /\ IsFrame(heap, obs.arg)
    /\ KindOf(heap, ChainLeaf(heap, obs.arg)) = "wrap"
    /\ obs.res.v

\* C6: Err follows Frame.Err through consecutive frames and stops at the first
\* value that is not a Frame, Unwrap method or not: the result is never a
\* Frame, Err(e) = e for e not a Frame, and Err(Err(e)) = Err(e).
C6_ErrStripsFrames ==
    \A r \in AllValues(heap) :
        LET e == Err(heap, r, Fuel(heap))
        IN /\ e.st = "ok"
           /\ ~IsFrame(heap, e.r)
           /\ e.r = ChainLeaf(heap, r)
           /\ ~IsFrame(heap, r) => e.r = r
           /\ Err(heap, e.r, Fuel(heap)) = e

C6_Witness ==
    /\ obs.op = "Err"
    /\ IsFrame(heap, obs.arg)
    /\ KindOf(heap, obs.res.r) = "wrap"
    /\ KindOf(heap, UnwrapEnd(heap, obs.res.r)) # "wrap"

\* The values an error value holds: the cause of a frame or a wrapper, the
\* elements of a List.
Succ(h, r) ==
    IF KindOf(h, r) \in {"frame", "wrap"} THEN {h[r.a].Err}
    ELSE IF IsList(h, r) THEN {Elems(h, r)[i] : i \in DOMAIN Elems(h, r)}
    ELSE {}

RECURSIVE Closure(_, _)
Closure(h, S) ==
    LET T == S \cup UNION {Succ(h, n) : n \in S}
    IN IF T = S THEN S ELSE Closure(h, T)

\* What r holds, directly or through what it holds.
Below(h, r) == Closure(h, Succ(h, r))

OnCycle(h, r) == r \in Below(h, r)

\* The Summary() the leaf defines, or else its Error().
LeafSummary(h, leaf) ==
    IF IsList(h, leaf) THEN ListSummary(h, Elems(h, leaf), Fuel(h))
    ELSE Error(h, leaf, Fuel(h))

\* C2: the Summary() of k >= 0 frames over a leaf is the leaf's own Summary()
\* when it defines one and its Error() otherwise, whatever k and the frames'
\* Func, Args, Code, File and Line.
C2_SummaryIsLeafSummary ==
    \A r \in AllValues(heap) :
        Summary(heap, r, Fuel(heap)) = LeafSummary(heap, ChainLeaf(heap, r))

C2_Witness ==
    /\ obs.op = "Summary"
    /\ IsFrame(heap, obs.arg)
    /\ IsList(heap, ChainLeaf(heap, obs.arg))
    /\ Len(Elems(heap, ChainLeaf(heap, obs.arg))) >= 1
    /\ obs.res.st = "ok"
    /\ obs.res.s # <<>>

\* C3: ToError returns nil for no element, the element itself for one, and
\* the list value, same elements in the same order, for two or more.
C3_ToErrorByLength ==
    /\ \A a \in Addrs(heap, "list") :
        LET es == heap[a].elems
            e == ToError(heap, a)
        IN /\ Len(es) = 0 => e = Nil
           /\ Len(es) = 1 => e = es[1]
           /\ Len(es) >= 2 => e.t = "list" /\ e.a = a /\ Elems(heap, e) = es
    /\ obs.op = "ToError" => obs.res.r = ToError(heap, obs.arg.a)

C3_Witness ==
    /\ obs.op = "ToError"
    /\ Len(heap[obs.arg.a].elems) >= 2
    /\ obs.res.r.t = "list"

\* The renderings of the elements joined by "\n", in order.
RECURSIVE JoinLines(_, _, _, _)
JoinLines(h, es, i, sum) ==
    IF i > Len(es) THEN Ok(<<>>)
    ELSE LET one == IF sum THEN Summary(h, es[i], Fuel(h)) ELSE Error(h, es[i], Fuel(h))
         IN IF one.st # "ok" \/ i = Len(es) THEN one
            ELSE LET rest == JoinLines(h, es, i + 1, sum)
                 IN IF rest.st # "ok" THEN rest ELSE Ok(one.s \o <<"\n">> \o rest.s)

C4_Rendered ==
    \A r \in AllValues(heap) :
        IsList(heap, r) =>
            /\ ListError(heap, Elems(heap, r), Fuel(heap)) = JoinLines(heap, Elems(heap, r), 1, FALSE)
            /\ ListSummary(heap, Elems(heap, r), Fuel(heap)) = JoinLines(heap, Elems(heap, r), 1, TRUE)

C4_Appended ==
    \A a \in Addrs(heap, "list") :
        \/ heap'[a].elems = heap[a].elems
        \/ /\ obs'.op = "Add"
           /\ obs'.res.r = Ptr(a)
           /\ heap'[a].elems = heap[a].elems \o <<obs'.arg>>

\* C4: every Add appends its argument to the List and changes nothing before
\* it, and Error() of a List is "" for no element, the element's Error() for
\* one and the elements' Error() joined by "\n" in order for more; Summary()
\* likewise with Summary(element).
C4_AddAndRender == [][C4_Appended]_vars /\ []C4_Rendered

C4_Witness ==
    /\ obs.op = "Error"
    /\ IsList(heap, obs.arg)
    /\ Len(Elems(heap, obs.arg)) >= 2
    /\ Error(heap, Elems(heap, obs.arg)[1], Fuel(heap))
           # Error(heap, Elems(heap, obs.arg)[2], Fuel(heap))
    /\ obs.res.st = "ok"

\* C7: appendValue never raises, gives nil for a nil argument, and gives a
\* quoted token of at most about 40 characters for every text argument.
C7_RendererTotalAndBounded ==
    tok # NoTok =>
        /\ tok.st = "ok"
        /\ val.k = "nil" => tok.s = <<"n", "i", "l">>
        /\ val.k \in {"string", "named"} =>
            /\ Len(tok.s) <= 40
            /\ Head(tok.s) = "\"" /\ tok.s[Len(tok.s)] = "\""

\* C8: every Frame of the constructors has a cause, and Error() and Summary()
\* of every Frame and List return a text.
C8_NothingFails ==
    /\ \A a \in Addrs(heap, "frame") : heap[a].Err # Nil
    /\ \A r \in AllValues(heap) :
        (IsFrame(heap, r) \/ IsList(heap, r)) =>
            /\ Error(heap, r, Fuel(heap)).st = "ok"
            /\ Summary(heap, r, Fuel(heap)).st = "ok"

AddsNothingTo(a) == obs'.op = "Add" => obs'.res.r \notin Below(heap, Ptr(a))

C9_Step ==
    \/ heap' = heap
    \/ \A a \in Addrs(heap, "frame") :
        /\ heap'[a] = [heap[a] EXCEPT !.Code = heap'[a].Code]
        /\ heap'[a] # heap[a] =>
            /\ obs'.op = "Detail"
            /\ obs'.res = Res("ok", <<>>, Ptr(a), FALSE)
            /\ Ok(heap'[a].Code) = Error(heap, obs'.arg, Fuel(heap))
        /\ AddsNothingTo(a) =>
            Summary(heap', Ptr(a), Fuel(heap')) = Summary(heap, Ptr(a), Fuel(heap))
        /\ (AddsNothingTo(a) /\ obs'.op # "Detail") =>
            Error(heap', Ptr(a), Fuel(heap')) = Error(heap, Ptr(a), Fuel(heap))

C10_Acyclic ==
    \A r \in AllValues(heap) :
        /\ ~OnCycle(heap, r)
        /\ Error(heap, r, Fuel(heap)).st # "overflow"
        /\ Summary(heap, r, Fuel(heap)).st # "overflow"
        /\ Err(heap, r, Fuel(heap)).st = "ok"
        /\ IsNotFound(heap, r, Fuel(heap)).st = "ok"

====
